---- MODULE Spec2Model ----
(***************************************************************************)
(* A model of scripts/build_sbdb_index.py: the byte recoverer              *)
(* (rebuild_gzip, _convert_cp1252), the streaming array decoder            *)
(* (iter_json_array), the record normalizers and the index assembler       *)
(* (build_index).                                                          *)
(*                                                                         *)
(* Text is a sequence of one-character strings.  Positions are 0-based as  *)
(* in the source: buffer[pos] of the source is At(buffer, pos) here.       *)
(***************************************************************************)
EXTENDS Integers, Sequences, FiniteSets, TLC

VARIABLES
    doc,        \* iter_json_array: the well-formed array document the file was made from
    text,       \* iter_json_array: the whole decompressed text of the opened file
    readSize,   \* iter_json_array: the size passed to stream.read
    gen,        \* iter_json_array: the generator's frame (rest of stream, buffer, pos, eof, ...)
    yielded,    \* iter_json_array: the values the consumer has received so far
    orig,       \* rebuild_gzip: the archive's bytes before the corruption
    corrupted,  \* rebuild_gzip: the text (code points) the fragments encode
    PARTS,      \* rebuild_gzip: the contents of the files of PARTS, in order
    partSize,   \* rebuild_gzip: the size passed to stream.read
    rb,         \* rebuild_gzip: the function's frame (part, stream, decoder, out, ...)
    rawRecord,  \* normalizers: the row a source yielded
    recordKind, \* normalizers: "ast" for the asteroid loop's row, "com" for the comet loop's
    normalized, \* normalizers: the dict built for the row, or the exception
    normPc,     \* normalizers: "raw" before the dict is built, "done" after
    ASTEROID_LIMIT, \* build_index: the cap (30_000 in the source; every value 1..MaxLimit here)
    archive,    \* build_index: what gzip delivers for the recovered archive: [valid, text]
    COMET_SOURCE,   \* build_index: what gzip delivers for the comet file: [valid, text]
    bi,         \* build_index: the function's frame (pc, asteroids, comets, ...)
    disk,       \* build_index: the files RECOVERED_GZ and INDEX_TARGET
    conv        \* _convert_cp1252 alone: the character, the call and its result

jsonVars == <<doc, text, readSize, gen, yielded>>

gzipVars == <<orig, corrupted, PARTS, partSize, rb>>

normVars == <<rawRecord, recordKind, normalized, normPc>>

buildVars == <<ASTEROID_LIMIT, archive, COMET_SOURCE, bi, disk>>

vars == <<doc, text, readSize, gen, yielded, orig, corrupted, PARTS, partSize, rb,
          rawRecord, recordKind, normalized, normPc,
          ASTEROID_LIMIT, archive, COMET_SOURCE, bi, disk, conv>>

(***************************************************************************)
(* Bounds of the model.                                                    *)
(***************************************************************************)
MaxElems == 2        \* top-level elements of a generated array
MaxChunk == 3        \* small read sizes tried besides the source's own
READ_SIZE == 65536   \* stream.read(65536)
MaxBytes == 2        \* bytes of a generated archive
MaxParts == 2        \* fragment files
MaxRows == 3         \* rows of a generated asteroid source
MaxComets == 2       \* rows of a generated comet source
MaxLimit == 2        \* values of the asteroid cap
MaxPad == 1          \* whitespace characters on each side of a flag string
MaxStr == 3          \* characters of a generated number or designation string
PART_READ_SIZE == 1000000   \* stream.read(1_000_000)
UNMAPPED == 256      \* a character above 0xFF that the code page does not have

(***************************************************************************)
(* Sequence helpers.                                                       *)
(***************************************************************************)
At(s, i) == IF i >= 0 /\ i < Len(s) THEN s[i + 1] ELSE ""

Slice(s, from, to) == \* s[from:to] of the source
    IF from >= to \/ from >= Len(s) THEN << >>
    ELSE SubSeq(s, from + 1, IF to > Len(s) THEN Len(s) ELSE to)

From(s, from) == Slice(s, from, Len(s))

Min(a, b) == IF a <= b THEN a ELSE b

(***************************************************************************)
(* JSON values.  Every value is a record of one shape:                     *)
(*   t    the kind: "null" "true" "false" "num" "str" "arr" "obj"          *)
(*        (and "NaN" "Infinity" "-Infinity", which the decoder accepts)    *)
(*   n    a number's integer part (magnitude)                              *)
(*   s    a string's characters; a number's sign and fraction lexeme       *)
(*   kids an array's items; an object's members as <<key, value, ...>>     *)
(* Python's None is the value of kind "null".                              *)
(***************************************************************************)
Val(t, n, s, kids) == [t |-> t, n |-> n, s |-> s, kids |-> kids]
None == Val("null", 0, << >>, << >>)
Lit(t) == Val(t, 0, << >>, << >>)
Num(n) == Val("num", n, << >>, << >>)
Str(s) == Val("str", 0, s, << >>)
Arr(kids) == Val("arr", 0, << >>, kids)
Obj(kids) == Val("obj", 0, << >>, kids)

(***************************************************************************)
(* json.JSONDecoder().raw_decode(s, idx), as the standard scanner computes *)
(* it.  A result is [ok, obj, end]; ok = FALSE is JSONDecodeError.         *)
(***************************************************************************)
Decoded(obj, end) == [ok |-> TRUE, obj |-> obj, end |-> end]
DecodeError == [ok |-> FALSE, obj |-> None, end |-> 0]

JsonWS == {" ", "\t", "\n", "\r"}
Digits == {"0", "1", "2", "3", "4", "5", "6", "7", "8", "9"}

DigitVal(c) ==
    CASE c = "0" -> 0 [] c = "1" -> 1 [] c = "2" -> 2 [] c = "3" -> 3
      [] c = "4" -> 4 [] c = "5" -> 5 [] c = "6" -> 6 [] c = "7" -> 7
      [] c = "8" -> 8 [] c = "9" -> 9

RECURSIVE SkipWS(_, _)
SkipWS(s, i) == IF At(s, i) \in JsonWS THEN SkipWS(s, i + 1) ELSE i

RECURSIVE DigitsEnd(_, _)
DigitsEnd(s, i) == IF At(s, i) \in Digits THEN DigitsEnd(s, i + 1) ELSE i

RECURSIVE DigitsValue(_, _, _)
DigitsValue(s, i, j) == \* the value of the digits s[i:j]
    IF i >= j THEN 0 ELSE DigitsValue(s, i, j - 1) * 10 + DigitVal(At(s, j - 1))

\* NUMBER_RE: (-?(?:0|[1-9]\d*))(\.\d+)?([eE][-+]?\d+)? matched at idx.
\* i0 is where the integer part starts, iEnd, fEnd, xEnd where the integer
\* part, the fraction and the exponent end.
IntEnd(s, i0) == IF At(s, i0) = "0" THEN i0 + 1 ELSE DigitsEnd(s, i0)

FracEnd(s, iEnd) ==
    IF At(s, iEnd) = "." /\ At(s, iEnd + 1) \in Digits
    THEN DigitsEnd(s, iEnd + 1) ELSE iEnd

ExpDigits(s, fEnd) == IF At(s, fEnd + 1) \in {"-", "+"} THEN fEnd + 2 ELSE fEnd + 1

ExpEnd(s, fEnd) ==
    IF At(s, fEnd) \in {"e", "E"} /\ At(s, ExpDigits(s, fEnd)) \in Digits
    THEN DigitsEnd(s, ExpDigits(s, fEnd)) ELSE fEnd

NumberTo(s, idx, i0, iEnd, xEnd) ==
    IF iEnd = i0 THEN DecodeError
    ELSE Decoded(Val("num", DigitsValue(s, i0, iEnd),
                     (IF i0 > idx THEN <<"-">> ELSE << >>) \o Slice(s, iEnd, xEnd),
                     << >>),
                 xEnd)

MatchInt(s, idx, i0, iEnd) == NumberTo(s, idx, i0, iEnd, ExpEnd(s, FracEnd(s, iEnd)))

MatchFrom(s, idx, i0) == MatchInt(s, idx, i0, IntEnd(s, i0))

MatchNumber(s, idx) == MatchFrom(s, idx, IF At(s, idx) = "-" THEN idx + 1 ELSE idx)

\* BACKSLASH of json.decoder: the one-character escapes ("<BS>" stands for
\* the backspace character, which a TLA+ string cannot hold).
Unescape(c) ==
    CASE c = "b" -> "<BS>" [] c = "f" -> "\f" [] c = "n" -> "\n"
      [] c = "r" -> "\r" [] c = "t" -> "\t" [] OTHER -> c

\* py_scanstring from the character after the opening quote.
RECURSIVE ScanString(_, _, _)
ScanChar(s, i, acc, c) ==
    IF c = "" THEN DecodeError                        \* unterminated string
    ELSE IF c = "\"" THEN Decoded(Str(acc), i + 1)
    ELSE IF c \in {"\n", "\r", "\t", "<BS>", "\f"} THEN DecodeError \* control character
    ELSE IF c = "\\"
         THEN IF At(s, i + 1) \in {"\"", "\\", "/", "b", "f", "n", "r", "t"}
              THEN ScanString(s, i + 2, Append(acc, Unescape(At(s, i + 1))))
              ELSE DecodeError
    ELSE ScanString(s, i + 1, Append(acc, c))

ScanString(s, i, acc) == ScanChar(s, i, acc, At(s, i))

IsWord(s, idx, w) == Slice(s, idx, idx + Len(w)) = w

OrElse(r, other) == IF r.ok THEN r ELSE other

\* The constants the scanner tries after a number did not match.
ScanConstant(s, idx) ==
    IF IsWord(s, idx, <<"N", "a", "N">>) THEN Decoded(Lit("NaN"), idx + 3)
    ELSE IF IsWord(s, idx, <<"I", "n", "f", "i", "n", "i", "t", "y">>)
         THEN Decoded(Lit("Infinity"), idx + 8)
    ELSE IF IsWord(s, idx, <<"-", "I", "n", "f", "i", "n", "i", "t", "y">>)
         THEN Decoded(Lit("-Infinity"), idx + 9)
    ELSE DecodeError

RECURSIVE ScanOnce(_, _)
RECURSIVE ParseItems(_, _, _)
RECURSIVE ParseMembers(_, _, _)

\* JSONArray: after an item r, at e (whitespace skipped): "]" or ",".
ItemsSep(s, e, items) ==
    IF At(s, e) = "]" THEN Decoded(Arr(items), e + 1)
    ELSE IF At(s, e) # "," THEN DecodeError
    ELSE ParseItems(s, SkipWS(s, e + 1), items)

ItemsAfter(s, r, acc) ==
    IF ~r.ok THEN DecodeError
    ELSE ItemsSep(s, SkipWS(s, r.end), Append(acc, r.obj))

\* JSONArray's loop, at the first character of an item.
ParseItems(s, idx, acc) == ItemsAfter(s, ScanOnce(s, idx), acc)

\* JSONObject: after a member, at e: "}" or "," and the next key's quote at q.
MembersSep(s, e, q, members) ==
    IF At(s, e) = "}" THEN Decoded(Obj(members), e + 1)
    ELSE IF At(s, e) # "," THEN DecodeError
    ELSE IF At(s, q) # "\"" THEN DecodeError
    ELSE ParseMembers(s, q + 1, members)

MemberEnd(s, e, members) == MembersSep(s, e, SkipWS(s, e + 1), members)

MemberValue(s, key, r, acc) ==
    IF ~r.ok THEN DecodeError
    ELSE MemberEnd(s, SkipWS(s, r.end), acc \o <<key, r.obj>>)

MemberColon(s, key, colon, acc) ==
    IF At(s, colon) # ":" THEN DecodeError
    ELSE MemberValue(s, key, ScanOnce(s, SkipWS(s, colon + 1)), acc)

MemberKey(s, k, acc) ==
    IF ~k.ok THEN DecodeError
    ELSE MemberColon(s, k.obj, SkipWS(s, k.end), acc)

\* JSONObject's loop, at the character after a key's opening quote.
ParseMembers(s, idx, acc) == MemberKey(s, ScanString(s, idx, << >>), acc)

\* JSONObject from the character after "{": e is that place, or the end of
\* the whitespace there when it is not a quote.
ObjectAt(s, e) ==
    IF At(s, e) = "}" THEN Decoded(Obj(<< >>), e + 1)
    ELSE IF At(s, e) # "\"" THEN DecodeError
    ELSE ParseMembers(s, e + 1, << >>)

\* JSONArray from the character after "[", whitespace skipped.
ArrayAt(s, e) ==
    IF At(s, e) = "]" THEN Decoded(Arr(<< >>), e + 1)
    ELSE ParseItems(s, e, << >>)

\* scan_once, c the character at idx.
ScanAt(s, idx, c) ==
    IF c = "" THEN DecodeError
    ELSE IF c = "\"" THEN ScanString(s, idx + 1, << >>)
    ELSE IF c = "{" THEN ObjectAt(s, SkipWS(s, idx + 1))
    ELSE IF c = "[" THEN ArrayAt(s, SkipWS(s, idx + 1))
    ELSE IF c = "n" /\ IsWord(s, idx, <<"n", "u", "l", "l">>) THEN Decoded(None, idx + 4)
    ELSE IF c = "t" /\ IsWord(s, idx, <<"t", "r", "u", "e">>)
         THEN Decoded(Lit("true"), idx + 4)
    ELSE IF c = "f" /\ IsWord(s, idx, <<"f", "a", "l", "s", "e">>)
         THEN Decoded(Lit("false"), idx + 5)
    ELSE OrElse(MatchNumber(s, idx), ScanConstant(s, idx))

ScanOnce(s, idx) == ScanAt(s, idx, At(s, idx))

raw_decode(s, idx) == ScanOnce(s, idx)

\* json.loads(s): one value, then only whitespace.
LoadsResult(s, r) == IF r.ok /\ SkipWS(s, r.end) = Len(s) THEN r ELSE DecodeError

loads(s) == LoadsResult(s, ScanOnce(s, SkipWS(s, 0)))

(***************************************************************************)
(* iter_json_array.  The generator's frame is a record                     *)
(*   rest    what stream.read has not returned yet                         *)
(*   buffer, pos, eof   the locals of the source                           *)
(*   pc      "read"  at the test of `while not eof`                        *)
(*           "scan"  at the top of the inner `while True`                  *)
(*           "returned"   after `return` at the closing bracket            *)
(*           "exhausted"  after `while not eof` ended the function         *)
(*   obj     the value of the last yield                                   *)
(***************************************************************************)
IsSpace(c) == c \in {" ", "\t", "\n", "\r", "\f"}   \* str.isspace

GenStart(src) ==
    [rest |-> src, buffer |-> << >>, pos |-> 0, eof |-> FALSE, pc |-> "read",
     obj |-> None]

GenDone(g) == g.pc \in {"returned", "exhausted"}

\* Which statement the generator executes next; c is buffer[pos].
ScanKind(g, c) ==
    IF g.pos < Len(g.buffer) /\ IsSpace(c) THEN "space"
    ELSE IF g.pos >= Len(g.buffer) THEN "end"
    ELSE IF c \in {"[", ","} THEN "delim"
    ELSE IF c = "]" THEN "close"
    ELSE IF raw_decode(g.buffer, g.pos).ok THEN "yield"
    ELSE "stall"

StepKind(g) ==
    IF g.pc = "read" THEN (IF g.eof THEN "exit" ELSE "read")
    ELSE IF g.pc = "scan" THEN ScanKind(g, At(g.buffer, g.pos))
    ELSE "none"

\* The variant without the trim: the whole buffer is kept for the next pass.
KeepBuffer(g) == [g EXCEPT !.pc = "read"]

\* buffer = buffer[pos:], then back to the test of the outer loop.
Trim(g) == [g EXCEPT !.buffer = From(g.buffer, g.pos), !.pc = "read"]

\* chunk = stream.read(size); if not chunk: eof = True; buffer += chunk; pos = 0
Feed(g, chunk) ==
    [g EXCEPT !.rest = From(g.rest, Len(chunk)),
              !.eof = (chunk = << >>),
              !.buffer = g.buffer \o chunk,
              !.pos = 0,
              !.pc = "scan"]

ReadChunk(g, size) == Feed(g, Slice(g.rest, 0, size))

\* obj, end = decoder.raw_decode(buffer, pos); yield obj; pos = end
Yield(g, r) == [g EXCEPT !.obj = r.obj, !.pos = r.end]

YieldStep(g) == Yield(g, raw_decode(g.buffer, g.pos))

\* The variant that takes "]" for one more delimiter and scans on.
CloseAsDelimiter(g) == [g EXCEPT !.pos = g.pos + 1]

\* if char == ']': return
Close(g) == [g EXCEPT !.pc = "returned"]

StepOf(g, size, k) ==
    CASE k = "read"  -> ReadChunk(g, size)
      [] k = "exit"  -> [g EXCEPT !.pc = "exhausted"]
      [] k = "space" -> [g EXCEPT !.pos = g.pos + 1]
      [] k = "end"   -> Trim(g)
      [] k = "delim" -> [g EXCEPT !.pos = g.pos + 1]
      [] k = "close" -> Close(g)
      [] k = "yield" -> YieldStep(g)
      [] k = "stall" -> Trim(g)
      [] OTHER       -> g

GenStep(g, size) == StepOf(g, size, StepKind(g))

\* next(generator): run to the next yield or to the end of the function.
RECURSIVE GenNext(_, _)
GenNext(g, size) ==
    IF GenDone(g) THEN g
    ELSE IF StepKind(g) = "yield" THEN GenStep(g, size)
    ELSE GenNext(GenStep(g, size), size)

\* list(iter_json_array(...)) continued from frame g.
RECURSIVE GenAll(_, _)
Collect(h, size) == IF GenDone(h) THEN << >> ELSE <<h.obj>> \o GenAll(h, size)

GenAll(g, size) == Collect(GenNext(g, size), size)

iter_json_array(src, size) == GenAll(GenStart(src), size)

(***************************************************************************)
(* The code page.  Bytes and code points are integers.  decoding_table is  *)
(* encodings.cp1252.decoding_table: the identity except on 0x80..0x9F,     *)
(* where five slots hold the "undefined" mark U+FFFE.                      *)
(***************************************************************************)
UNDEFINED == 65534   \* ord('\ufffe')

Cp1252High ==
    <<8364, UNDEFINED, 8218, 402, 8222, 8230, 8224, 8225,
      710, 8240, 352, 8249, 338, UNDEFINED, 381, UNDEFINED,
      UNDEFINED, 8216, 8217, 8220, 8221, 8226, 8211, 8212,
      732, 8482, 353, 8250, 339, UNDEFINED, 382, 376>>

decoding_table == [b \in 0..255 |-> IF b \in 128..159 THEN Cp1252High[b - 127] ELSE b]

\* {ord(ch): i for i, ch in enumerate(cp1252.decoding_table) if ch != '\ufffe'}
ReverseKeys == {decoding_table[b] : b \in 0..255} \ {UNDEFINED}

\* The value the comprehension leaves under a key: entries are stored in the
\* order of i, so the last i with that character.
LastIndex(code) ==
    CHOOSE i \in 0..255 :
        decoding_table[i] = code /\ \A j \in (i + 1)..255 : decoding_table[j] # code

CP1252_REVERSE == [code \in ReverseKeys |-> LastIndex(code)]

\* The variant that keeps the low byte of the code point.
LowByteOf(code) == code % 256

\* _convert_cp1252(text): [ok, bytes]; ok = FALSE is the KeyError of the
\* table lookup, with bytes the part of buf built before it.
Converted(ok, bytes) == [ok |-> ok, bytes |-> bytes]

ByteOf(code) == IF code <= 255 THEN code ELSE CP1252_REVERSE[code]

HasByte(code) == code <= 255 \/ code \in DOMAIN CP1252_REVERSE

RECURSIVE ConvertFrom(_, _, _)
ConvertFrom(chars, i, buf) ==
    IF i > Len(chars) THEN Converted(TRUE, buf)
    ELSE IF ~HasByte(chars[i]) THEN Converted(FALSE, buf)
    ELSE ConvertFrom(chars, i + 1, Append(buf, ByteOf(chars[i])))

convert_cp1252(chars) == ConvertFrom(chars, 1, << >>)

(***************************************************************************)
(* codecs.getincrementaldecoder('utf-8')(): decode(data, final).  The      *)
(* decoder's state is the bytes of a sequence begun and not yet complete.  *)
(* A result is [ok, chars, pending]; ok = FALSE is UnicodeDecodeError.     *)
(***************************************************************************)
Utf8Result(ok, chars, pending) == [ok |-> ok, chars |-> chars, pending |-> pending]

\* The length of the sequence a lead byte starts; 0 for an invalid start.
Utf8Need(lead) ==
    IF lead < 128 THEN 1
    ELSE IF lead \in 194..223 THEN 2
    ELSE IF lead \in 224..239 THEN 3
    ELSE IF lead \in 240..244 THEN 4
    ELSE 0

\* Whether b may be the k-th byte (k >= 2) of a sequence started by lead.
ContinuationOK(lead, k, b) ==
    IF k = 2 /\ lead = 224 THEN b \in 160..191
    ELSE IF k = 2 /\ lead = 237 THEN b \in 128..159
    ELSE IF k = 2 /\ lead = 240 THEN b \in 144..191
    ELSE IF k = 2 /\ lead = 244 THEN b \in 128..143
    ELSE b \in 128..191

\* The code point of the complete sequence data[i .. i+need-1].
CodePoint(data, i, need) ==
    CASE need = 1 -> data[i]
      [] need = 2 -> (data[i] - 192) * 64 + (data[i + 1] - 128)
      [] need = 3 -> (data[i] - 224) * 4096 + (data[i + 1] - 128) * 64
                       + (data[i + 2] - 128)
      [] need = 4 -> (data[i] - 240) * 262144 + (data[i + 1] - 128) * 4096
                       + (data[i + 2] - 128) * 64 + (data[i + 3] - 128)

RECURSIVE Utf8From(_, _, _, _)
Utf8Seq(data, i, acc, final, need, have) ==
    IF need = 0 THEN Utf8Result(FALSE, acc, << >>)          \* invalid start byte
    ELSE IF \E k \in 2..Min(need, have) : ~ContinuationOK(data[i], k, data[i + k - 1])
         THEN Utf8Result(FALSE, acc, << >>)                 \* invalid continuation byte
    ELSE IF have < need
         THEN IF final THEN Utf8Result(FALSE, acc, << >>)   \* unexpected end of data
              ELSE Utf8Result(TRUE, acc, SubSeq(data, i, Len(data)))
    ELSE Utf8From(data, i + need, Append(acc, CodePoint(data, i, need)), final)

Utf8From(data, i, acc, final) ==
    IF i > Len(data) THEN Utf8Result(TRUE, acc, << >>)
    ELSE Utf8Seq(data, i, acc, final, Utf8Need(data[i]), Len(data) - i + 1)

\* decoder.decode(chunk, final) of a decoder holding `pending`.
Utf8Decode(pending, chunk, final) == Utf8From(pending \o chunk, 1, << >>, final)

\* str.encode('utf-8') of one code point, and of a text.
Utf8Char(cp) ==
    IF cp < 128 THEN <<cp>>
    ELSE IF cp < 2048 THEN <<192 + (cp \div 64), 128 + (cp % 64)>>
    ELSE IF cp < 65536
         THEN <<224 + (cp \div 4096), 128 + ((cp \div 64) % 64), 128 + (cp % 64)>>
    ELSE <<240 + (cp \div 262144), 128 + ((cp \div 4096) % 64),
           128 + ((cp \div 64) % 64), 128 + (cp % 64)>>

RECURSIVE Utf8Encode(_)
Utf8Encode(chars) ==
    IF chars = << >> THEN << >> ELSE Utf8Char(Head(chars)) \o Utf8Encode(Tail(chars))

(***************************************************************************)
(* rebuild_gzip.  Its frame is a record                                    *)
(*   part     the index in PARTS of the fragment being read (1-based)      *)
(*   stream   what stream.read has not returned yet of that fragment       *)
(*   decoder  the incremental decoder's pending bytes                      *)
(*   out      the bytes written to the target file so far                  *)
(*   flushes  how many final decodes were made for the current fragment    *)
(*   pc       "open"  at `for part in PARTS` / the decoder's construction  *)
(*            "read"  at `while chunk := stream.read(...)`                 *)
(*            "done"  the function returned, the target is closed          *)
(*            "UnicodeDecodeError", "KeyError"  the function raised        *)
(***************************************************************************)
RebuildStart ==
    [part |-> 0, stream |-> << >>, decoder |-> << >>, out |-> << >>,
     flushes |-> 0, pc |-> "open"]

RebuildEnded(r) == r.pc \in {"done", "UnicodeDecodeError", "KeyError"}

\* for part in PARTS: decoder = ...; with part.open('rb') as stream
OpenPart(r, parts) ==
    IF r.part >= Len(parts) THEN [r EXCEPT !.pc = "done"]
    ELSE [r EXCEPT !.part = r.part + 1, !.stream = parts[r.part + 1],
                   !.decoder = << >>, !.flushes = 0, !.pc = "read"]

\* The variant whose decoder forgets the bytes of an unfinished sequence.
WriteTextDropsPending(r, d, c) ==
    IF ~d.ok THEN [r EXCEPT !.pc = "UnicodeDecodeError"]
    ELSE IF ~c.ok THEN [r EXCEPT !.decoder = << >>, !.pc = "KeyError"]
    ELSE [r EXCEPT !.decoder = << >>, !.out = r.out \o c.bytes]

\* out.write(_convert_cp1252(text)) for the text a decode returned
WriteText(r, d, c) ==
    IF ~d.ok THEN [r EXCEPT !.pc = "UnicodeDecodeError"]
    ELSE IF ~c.ok THEN [r EXCEPT !.decoder = d.pending, !.pc = "KeyError"]
    ELSE [r EXCEPT !.decoder = d.pending, !.out = r.out \o c.bytes]

Decode(r, d) == WriteText(r, d, convert_cp1252(d.chars))

\* chunk := stream.read(size), non-empty: out.write(convert(decoder.decode(chunk)))
DecodeChunk(r, size) ==
    Decode([r EXCEPT !.stream = From(r.stream, size)],
           Utf8Decode(r.decoder, Slice(r.stream, 0, size), FALSE))

\* tail = decoder.decode(b'', final=True); if tail: out.write(convert(tail))
Flushed(r) == IF RebuildEnded(r) THEN r ELSE [r EXCEPT !.pc = "open"]

Flush(r) ==
    Flushed(Decode([r EXCEPT !.flushes = r.flushes + 1],
                   Utf8Decode(r.decoder, << >>, TRUE)))

RebuildKind(r, parts) ==
    IF r.pc = "open" THEN (IF r.part < Len(parts) THEN "open" ELSE "close")
    ELSE IF r.pc = "read" THEN (IF r.stream # << >> THEN "chunk" ELSE "flush")
    ELSE "none"

RebuildStepOf(r, parts, size, k) ==
    CASE k = "open"  -> OpenPart(r, parts)
      [] k = "close" -> OpenPart(r, parts)
      [] k = "chunk" -> DecodeChunk(r, size)
      [] k = "flush" -> Flush(r)
      [] OTHER       -> r

RebuildStep(r, parts, size) == RebuildStepOf(r, parts, size, RebuildKind(r, parts))

\* rebuild_gzip(target) run to its end.
RECURSIVE RebuildRun(_, _, _)
RebuildRun(r, parts, size) ==
    IF RebuildEnded(r) THEN r ELSE RebuildRun(RebuildStep(r, parts, size), parts, size)

rebuild_gzip(parts, size) == RebuildRun(RebuildStart, parts, size)

(***************************************************************************)
(* Python operations on JSON values that the normalizers use.  A result    *)
(* of a function that may raise is [ok, val]; ok = FALSE is the exception. *)
(***************************************************************************)
Ok(v) == [ok |-> TRUE, val |-> v]
Raised == [ok |-> FALSE, val |-> None]

\* A number's mantissa: its lexeme in s up to the exponent mark.
RECURSIVE Mantissa(_)
Mantissa(s) ==
    IF s = << >> \/ Head(s) \in {"e", "E"} THEN << >>
    ELSE <<Head(s)>> \o Mantissa(Tail(s))

IsZero(v) == v.n = 0 /\ \A i \in 1..Len(Mantissa(v.s)) : Mantissa(v.s)[i] \in {"-", ".", "0"}

\* bool(v)
Truthy(v) ==
    CASE v.t \in {"null", "false"} -> FALSE
      [] v.t = "num" -> ~IsZero(v)
      [] v.t = "str" -> v.s # << >>
      [] v.t \in {"arr", "obj"} -> v.kids # << >>
      [] OTHER -> TRUE

OrNone(v) == IF Truthy(v) THEN v ELSE None   \* v or None

\* dict.get(key): the value of the last member with that key, else None.
RECURSIVE GetFrom(_, _, _)
GetFrom(kids, key, i) ==
    IF i < 1 THEN None
    ELSE IF kids[i].s = key THEN kids[i + 1]
    ELSE GetFrom(kids, key, i - 2)

Get(row, key) == GetFrom(row.kids, key, Len(row.kids) - 1)

HasKey(row, key) == \E i \in 1..Len(row.kids) : i % 2 = 1 /\ row.kids[i].s = key

Keys(row) == [i \in 1..(Len(row.kids) \div 2) |-> row.kids[2 * i - 1].s]

\* str.strip()
RECURSIVE LStrip(_)
LStrip(s) == IF s # << >> /\ IsSpace(Head(s)) THEN LStrip(Tail(s)) ELSE s

RECURSIVE RStrip(_)
RStrip(s) ==
    IF s # << >> /\ IsSpace(s[Len(s)]) THEN RStrip(SubSeq(s, 1, Len(s) - 1)) ELSE s

Strip(s) == RStrip(LStrip(s))

\* str.lower() on the letters A-Z
UpperCase == <<"A", "B", "C", "D", "E", "F", "G", "H", "I", "J", "K", "L", "M",
               "N", "O", "P", "Q", "R", "S", "T", "U", "V", "W", "X", "Y", "Z">>
LowerCase == <<"a", "b", "c", "d", "e", "f", "g", "h", "i", "j", "k", "l", "m",
               "n", "o", "p", "q", "r", "s", "t", "u", "v", "w", "x", "y", "z">>

LowerChar(c) ==
    IF \E i \in 1..26 : UpperCase[i] = c
    THEN LowerCase[CHOOSE i \in 1..26 : UpperCase[i] = c]
    ELSE c

Lower(s) == [i \in 1..Len(s) |-> LowerChar(s[i])]

\* str(n) for a natural number
DigitChar(d) == <<"0", "1", "2", "3", "4", "5", "6", "7", "8", "9">>[d + 1]

RECURSIVE Decimal(_)
Decimal(n) == IF n < 10 THEN <<DigitChar(n)>> ELSE Decimal(n \div 10) \o <<DigitChar(n % 10)>>

\* The index of the last "(" of s, 0 when there is none (str.rsplit('(', 1)).
\* The variant that splits at the first "(" (str.split in place of rsplit).
FirstParen(s, i) ==
    IF \E j \in 1..i : s[j] = "("
    THEN CHOOSE j \in 1..i : s[j] = "(" /\ \A k \in 1..(j - 1) : s[k] # "("
    ELSE 0

RECURSIVE LastParen(_, _)
LastParen(s, i) == IF i < 1 THEN 0 ELSE IF s[i] = "(" THEN i ELSE LastParen(s, i - 1)

\* repr(v) and str(v): str of a string is the string, of anything else its repr.
RECURSIVE Repr(_)
RECURSIVE ReprItems(_, _)
RECURSIVE ReprMembers(_, _)

Repr(v) ==
    CASE v.t = "null" -> <<"N", "o", "n", "e">>
      [] v.t = "true" -> <<"T", "r", "u", "e">>
      [] v.t = "false" -> <<"F", "a", "l", "s", "e">>
      [] v.t = "NaN" -> <<"n", "a", "n">>
      [] v.t = "Infinity" -> <<"i", "n", "f">>
      [] v.t = "-Infinity" -> <<"-", "i", "n", "f">>
      [] v.t = "num" ->
           (IF v.s # << >> /\ Head(v.s) = "-" THEN <<"-">> ELSE << >>)
             \o Decimal(v.n)
             \o (IF v.s # << >> /\ Head(v.s) = "-" THEN Tail(v.s) ELSE v.s)
      [] v.t = "str" -> <<"'">> \o v.s \o <<"'">>
      [] v.t = "arr" -> <<"[">> \o ReprItems(v.kids, 1) \o <<"]">>
      [] v.t = "obj" -> <<"{">> \o ReprMembers(v.kids, 1) \o <<"}">>

ReprItems(kids, i) ==
    IF i > Len(kids) THEN << >>
    ELSE (IF i > 1 THEN <<",", " ">> ELSE << >>) \o Repr(kids[i]) \o ReprItems(kids, i + 1)

ReprMembers(kids, i) ==
    IF i > Len(kids) THEN << >>
    ELSE (IF i > 1 THEN <<",", " ">> ELSE << >>)
           \o Repr(kids[i]) \o <<":", " ">> \o Repr(kids[i + 1])
           \o ReprMembers(kids, i + 2)

PyStr(v) == IF v.t = "str" THEN v.s ELSE Repr(v)

(***************************************************************************)
(* The normalizers.                                                        *)
(***************************************************************************)
\* stripped[1:-1] when stripped starts with "(" and ends with ")"
Unparen(stripped) ==
    IF stripped # << >> /\ Head(stripped) = "(" /\ stripped[Len(stripped)] = ")"
    THEN Slice(stripped, 1, Len(stripped) - 1)
    ELSE stripped

StrOrNone(s) == IF s = << >> THEN None ELSE Str(s)   \* s or None

normalize_number(value) ==
    IF ~Truthy(value) THEN Ok(None)
    ELSE IF value.t # "str" THEN Raised           \* AttributeError: no .strip
    ELSE Ok(StrOrNone(Unparen(Strip(value.s))))

RECURSIVE StrItems(_, _)
StrItems(kids, i) ==
    IF i > Len(kids) THEN << >>
    ELSE (IF Truthy(kids[i]) THEN <<Str(PyStr(kids[i]))>> ELSE << >>)
           \o StrItems(kids, i + 1)

normalize_list(value) ==
    IF ~Truthy(value) THEN Arr(<< >>)
    ELSE IF value.t = "arr" THEN Arr(StrItems(value.kids, 1))
    ELSE Arr(<<Str(PyStr(value))>>)

\* The reading the index must not have: an unrecognised word taken as "no".
NeoUnknownIsFalse(lowered) ==
    IF lowered \in { <<"y">>, <<"y", "e", "s">>, <<"t", "r", "u", "e">> } THEN Lit("true")
    ELSE Lit("false")

NeoOfString(lowered) ==
    IF lowered \in { <<"y">>, <<"y", "e", "s">>, <<"t", "r", "u", "e">> } THEN Lit("true")
    ELSE IF lowered \in { <<"n">>, <<"n", "o">>, <<"f", "a", "l", "s", "e">> }
         THEN Lit("false")
    ELSE None

normalize_neo(value) ==
    IF value.t \in {"true", "false"} THEN value
    ELSE IF value.t \in {"num", "NaN", "Infinity", "-Infinity"}
         THEN (IF Truthy(value) THEN Lit("true") ELSE Lit("false"))
    ELSE IF value.t = "str" THEN NeoOfString(Lower(Strip(value.s)))
    ELSE None

\* The field names of the two sources and of the index.
K_Number == <<"N", "u", "m", "b", "e", "r">>
K_Name == <<"N", "a", "m", "e">>
K_Principal_desig ==
    <<"P", "r", "i", "n", "c", "i", "p", "a", "l", "_", "d", "e", "s", "i", "g">>
K_Other_desigs == <<"O", "t", "h", "e", "r", "_", "d", "e", "s", "i", "g", "s">>
K_H == <<"H">>
K_G == <<"G">>
K_Epoch == <<"E", "p", "o", "c", "h">>
K_Orbit_type == <<"O", "r", "b", "i", "t", "_", "t", "y", "p", "e">>
K_Neo == <<"N", "e", "o">>
K_Designation_and_name ==
    <<"D", "e", "s", "i", "g", "n", "a", "t", "i", "o", "n", "_", "a", "n", "d", "_",
      "n", "a", "m", "e">>
K_Provisional_packed_desig ==
    <<"P", "r", "o", "v", "i", "s", "i", "o", "n", "a", "l", "_", "p", "a", "c", "k",
      "e", "d", "_", "d", "e", "s", "i", "g">>
K_type == <<"t", "y", "p", "e">>
K_number == <<"n", "u", "m", "b", "e", "r">>
K_name == <<"n", "a", "m", "e">>
K_principal == <<"p", "r", "i", "n", "c", "i", "p", "a", "l">>
K_other == <<"o", "t", "h", "e", "r">>
K_h == <<"h">>
K_g == <<"g">>
K_epoch == <<"e", "p", "o", "c", "h">>
K_orbit == <<"o", "r", "b", "i", "t">>
K_neo == <<"n", "e", "o">>
K_designation == <<"d", "e", "s", "i", "g", "n", "a", "t", "i", "o", "n">>
K_packed == <<"p", "a", "c", "k", "e", "d">>
T_ast == <<"a", "s", "t">>
T_com == <<"c", "o", "m">>

\* The dict build_index appends for an asteroid row (lines 129-142).
AsteroidDict(row, number) ==
    IF ~number.ok THEN Raised
    ELSE Ok(Obj(<<Str(K_type), Str(T_ast),
                  Str(K_number), number.val,
                  Str(K_name), OrNone(Get(row, K_Name)),
                  Str(K_principal), OrNone(Get(row, K_Principal_desig)),
                  Str(K_other), normalize_list(Get(row, K_Other_desigs)),
                  Str(K_h), Get(row, K_H),
                  Str(K_g), Get(row, K_G),
                  Str(K_epoch), Get(row, K_Epoch),
                  Str(K_orbit), OrNone(Get(row, K_Orbit_type)),
                  Str(K_neo), normalize_neo(Get(row, K_Neo))>>))

AsteroidRecord(row) ==
    IF row.t # "obj" THEN Raised                  \* AttributeError: no .get
    ELSE AsteroidDict(row, normalize_number(Get(row, K_Number)))

\* name = tail[:-1].strip() or None, tail what follows the last "("
NameOf(s) == StrOrNone(Strip(Slice(s, LastParen(s, Len(s)), Len(s) - 1)))

\* Lines 148-152: designation and name; the `in` and endswith tests raise on
\* a value that is no string where Python has no such operation.
CometName(designation) ==
    CASE designation.t = "str" ->
           IF LastParen(designation.s, Len(designation.s)) > 0
              /\ designation.s[Len(designation.s)] = ")"
           THEN Ok(NameOf(designation.s)) ELSE Ok(None)
      [] designation.t = "arr" ->
           IF \E i \in 1..Len(designation.kids) : designation.kids[i] = Str(<<"(">>)
           THEN Raised ELSE Ok(None)               \* AttributeError: no .endswith
      [] designation.t = "obj" ->
           IF HasKey(designation, <<"(">>) THEN Raised ELSE Ok(None)
      [] OTHER -> Raised                            \* TypeError: not iterable

CometDict(row, designation, name) ==
    IF ~name.ok THEN Raised
    ELSE Ok(Obj(<<Str(K_type), Str(T_com),
                  Str(K_designation), designation,
                  Str(K_name), name.val,
                  Str(K_packed), OrNone(Get(row, K_Provisional_packed_desig)),
                  Str(K_orbit), OrNone(Get(row, K_Orbit_type)),
                  Str(K_h), Get(row, K_H),
                  Str(K_g), Get(row, K_G)>>))

\* row.get('Designation_and_name') or ''
Designation(row) ==
    IF Truthy(Get(row, K_Designation_and_name))
    THEN Get(row, K_Designation_and_name) ELSE Str(<< >>)

CometRecord(row) ==
    IF row.t # "obj" THEN Raised                  \* AttributeError: no .get
    ELSE CometDict(row, Designation(row), CometName(Designation(row)))

(***************************************************************************)
(* build_index.  Its frame is a record                                     *)
(*   pc         the statement it is at: "recover" (line 125),              *)
(*              "open_asteroids", "asteroids" (lines 128-144),             *)
(*              "open_comets", "comets" (lines 147-163),                   *)
(*              "open_index" (lines 165-174), "dump" (line 175),           *)
(*              "unlink" (line 177), "done", or "failed" after an          *)
(*              exception left the function                                *)
(*   error      the stage whose exception ended the run                    *)
(*   asteroids, comets   the two lists                                     *)
(*   pulled     the rows the asteroid generator has handed over            *)
(* A file gzip reads is [valid, text]: text is what it decompresses to,    *)
(* valid = FALSE makes the first read raise (BadGzipFile, EOFError, a      *)
(* missing file).  The disk holds RECOVERED_GZ ("absent" or "present")     *)
(* and INDEX_TARGET: "untouched" (as before the run), "open" (created or   *)
(* truncated, the payload not or partly written) or "written".             *)
(***************************************************************************)
SourceFile(valid, src) == [valid |-> valid, text |-> src]

SOURCE_LABEL == "JPL SBDB mpcorb_extended + comet els"

\* The payload with the two lists in the other order.
PayloadCometsFirst(asteroids, comets) ==
    [metadata |-> [asteroidCount |-> Len(asteroids), cometCount |-> Len(comets),
                   source |-> SOURCE_LABEL],
     entries |-> comets \o asteroids]

Payload(asteroids, comets) ==
    [metadata |-> [asteroidCount |-> Len(asteroids), cometCount |-> Len(comets),
                   source |-> SOURCE_LABEL],
     entries |-> asteroids \o comets]

NoPayload ==
    [metadata |-> [asteroidCount |-> 0, cometCount |-> 0, source |-> ""],
     entries |-> << >>]

BuildStart ==
    [pc |-> "recover", error |-> "", asteroids |-> << >>, comets |-> << >>,
     pulled |-> 0]

DiskStart == [recovered |-> "absent", index |-> "untouched", payload |-> NoPayload]

Fail(b, stage) == [b EXCEPT !.pc = "failed", !.error = stage]

\* Line 125: the exception of rebuild_gzip leaves build_index.
AfterRecover(b, r) ==
    IF r.pc = "done" THEN [b EXCEPT !.pc = "open_asteroids"] ELSE Fail(b, "recover")

\* The first read of a generator's file.
AfterOpen(b, file, loop) ==
    IF file.valid THEN [b EXCEPT !.pc = loop] ELSE Fail(b, "decompress")

\* The test that would let one record too many through.
CapExceeded(n, cap) == n > cap

\* if len(asteroids) >= ASTEROID_LIMIT: break
CapReached(n, cap) == n >= cap

\* The variant whose break leaves for the index, past the comet source.
CapCheckSkipsComets(b, cap) ==
    IF CapReached(Len(b.asteroids), cap) THEN [b EXCEPT !.pc = "open_index"] ELSE b

CapCheck(b, cap) ==
    IF CapReached(Len(b.asteroids), cap) THEN [b EXCEPT !.pc = "open_comets"] ELSE b

AppendAsteroid(b, rec, cap) ==
    IF ~rec.ok THEN Fail(b, "normalize")
    ELSE CapCheck([b EXCEPT !.asteroids = Append(b.asteroids, rec.val)], cap)

\* One turn of `for row in iter_json_array(RECOVERED_GZ)`, g the generator
\* after next().
AfterAsteroid(b, g, cap) ==
    IF GenDone(g) THEN [b EXCEPT !.pc = "open_comets"]
    ELSE AppendAsteroid([b EXCEPT !.pulled = b.pulled + 1], AsteroidRecord(g.obj), cap)

AppendComet(b, rec) ==
    IF ~rec.ok THEN Fail(b, "normalize")
    ELSE [b EXCEPT !.comets = Append(b.comets, rec.val)]

\* One turn of `for row in iter_json_array(COMET_SOURCE)`.
AfterComet(b, g) ==
    IF GenDone(g) THEN [b EXCEPT !.pc = "open_index"] ELSE AppendComet(b, CometRecord(g.obj))

(***************************************************************************)
(* The parts of the state a specification does not use stay as they are    *)
(* before the function is called.                                          *)
(***************************************************************************)
JsonIdle ==
    /\ doc = << >>
    /\ text = << >>
    /\ readSize = READ_SIZE
    /\ gen = GenStart(<< >>)
    /\ yielded = << >>

GzipIdle ==
    /\ orig = << >>
    /\ corrupted = << >>
    /\ PARTS = << >>
    /\ partSize = PART_READ_SIZE
    /\ rb = RebuildStart

NormIdle ==
    /\ rawRecord = None
    /\ recordKind = "ast"
    /\ normalized = Raised
    /\ normPc = "raw"

\* The call of _convert_cp1252 on the one-character text of a code point:
\* byte, the byte the character stands for; forward, whether the character
\* is the code page's character for that byte or the character whose code
\* point is the byte.
ConvertCall(byte, forward) ==
    [byte |-> byte, forward |-> forward,
     char |-> IF forward THEN decoding_table[byte] ELSE byte,
     result |-> Converted(FALSE, << >>), pc |-> "call"]

CodePageIdle == conv = ConvertCall(0, FALSE)

BuildIdle ==
    /\ ASTEROID_LIMIT = 1
    /\ archive = SourceFile(FALSE, << >>)
    /\ COMET_SOURCE = SourceFile(FALSE, << >>)
    /\ bi = BuildStart
    /\ disk = DiskStart

(***************************************************************************)
(* The decoder alone: a file whose decompressed text is a JSON array of up *)
(* to MaxElems elements, or a prefix of one (a truncated file), read with  *)
(* the source's read size or a small one.                                  *)
(***************************************************************************)
ElemTexts ==
    { <<"1">>, <<"1", "2">>, <<"t", "r", "u", "e">>, <<"\"", "a", "\"">>,
      <<"{", "\"", "a", "\"", ":", "1", "}">>, <<"[", "1", "]">> }

Separators == { <<",">>, <<",", " ">> }

RECURSIVE Join(_, _)
Join(elems, sep) ==
    IF elems = << >> THEN << >>
    ELSE IF Len(elems) = 1 THEN elems[1]
    ELSE elems[1] \o sep \o Join(Tail(elems), sep)

ArrayDocs ==
    { <<"[">> \o Join(es, sep) \o <<"]">> :
        es \in UNION { [1..k -> ElemTexts] : k \in 0..MaxElems }, sep \in Separators }

ReadSizes == (1..MaxChunk) \cup {READ_SIZE}

\* What a file may hold after the closing bracket of its array.
Trailers == { <<"\n">>, <<"[", "1", "]">> }

\* The text of the file: the document, the document cut short, or the
\* document followed by more text.
Texts(d) == { Slice(d, 0, k) : k \in 0..Len(d) } \cup { d \o t : t \in Trailers }

JsonInit ==
    /\ doc \in ArrayDocs
    /\ text \in Texts(doc)
    /\ readSize \in ReadSizes
    /\ gen = GenStart(text)
    /\ yielded = << >>
    /\ GzipIdle
    /\ NormIdle
    /\ BuildIdle
    /\ CodePageIdle

\* The consumer runs the generator's next statement; a yield hands it obj.
Advance ==
    /\ gen' = GenStep(gen, readSize)
    /\ yielded' = IF StepKind(gen) = "yield" THEN Append(yielded, gen'.obj) ELSE yielded
    /\ UNCHANGED <<doc, text, readSize>>
    /\ UNCHANGED <<gzipVars, normVars, buildVars, conv>>

JRead ==            \* lines 68-72
    /\ StepKind(gen) = "read"
    /\ Advance

JExit ==            \* line 67 with eof set
    /\ StepKind(gen) = "exit"
    /\ Advance

JSkipSpace ==       \* lines 74-75
    /\ StepKind(gen) = "space"
    /\ Advance

JBufferEnd ==       \* lines 76-77, 90
    /\ StepKind(gen) = "end"
    /\ Advance

JSkipDelim ==       \* lines 79-81
    /\ StepKind(gen) = "delim"
    /\ Advance

JClose ==           \* lines 82-83
    /\ StepKind(gen) = "close"
    /\ Advance

JYield ==           \* lines 85, 88-89
    /\ StepKind(gen) = "yield"
    /\ Advance

JStall ==           \* lines 86-87, 90
    /\ StepKind(gen) = "stall"
    /\ Advance

JsonNext ==
    \/ JRead \/ JExit \/ JSkipSpace \/ JBufferEnd
    \/ JSkipDelim \/ JClose \/ JYield \/ JStall

SpecJson == JsonInit /\ [][JsonNext]_vars

\* The consumer keeps asking for the next value and the generator's
\* statements are always executed: a step that can be taken is eventually
\* taken.  This is weak fairness of the generator's step, with its
\* enabling condition written out: the step is deterministic, so it is
\* enabled exactly when GenStep changes the frame.
Progress == []<>(GenStep(gen, readSize) = gen) \/ []<><<JsonNext>>_vars

SpecJsonLive == SpecJson /\ Progress

(***************************************************************************)
(* The recoverer alone: an archive of up to MaxBytes bytes, read as the    *)
(* code page (an undefined slot gives the C1 control of the same number),  *)
(* possibly with a character the code page lacks put before or after,      *)
(* encoded as UTF-8 and cut into MaxParts fragments at any byte offsets.   *)
(***************************************************************************)
OrigBytes == {65, 128, 129}   \* 'A'; the euro sign's byte; an undefined slot

Corrupt(b) == IF decoding_table[b] = UNDEFINED THEN b ELSE decoding_table[b]

CorruptAll(bytes) == [i \in 1..Len(bytes) |-> Corrupt(bytes[i])]

\* The fragment at index i of data cut at the nondecreasing offsets cuts.
CutAt(cuts, i, len) == IF i = 0 THEN 0 ELSE IF i > Len(cuts) THEN len ELSE cuts[i]

Fragments(data, cuts) ==
    [i \in 1..(Len(cuts) + 1) |->
        Slice(data, CutAt(cuts, i - 1, Len(data)), CutAt(cuts, i, Len(data)))]

Splits(data, n) ==
    { Fragments(data, cuts) :
        cuts \in { c \in [1..(n - 1) -> 0..Len(data)] :
                     \A i \in 1..(n - 2) : c[i] <= c[i + 1] } }

PartSizes == (1..MaxChunk) \cup {PART_READ_SIZE}

GzipInit ==
    /\ orig \in UNION { [1..k -> OrigBytes] : k \in 0..MaxBytes }
    /\ corrupted \in { CorruptAll(orig), <<UNMAPPED>> \o CorruptAll(orig),
                       CorruptAll(orig) \o <<UNMAPPED>> }
    /\ PARTS \in Splits(Utf8Encode(corrupted), MaxParts)
    /\ partSize \in PartSizes
    /\ rb = RebuildStart
    /\ JsonIdle
    /\ NormIdle
    /\ BuildIdle
    /\ CodePageIdle

RebuildAdvance ==
    /\ rb' = RebuildStep(rb, PARTS, partSize)
    /\ UNCHANGED <<orig, corrupted, PARTS, partSize>>
    /\ UNCHANGED <<jsonVars, normVars, buildVars, conv>>

GOpenPart ==        \* lines 51-53
    /\ RebuildKind(rb, PARTS) = "open"
    /\ RebuildAdvance

GChunk ==           \* lines 54-55
    /\ RebuildKind(rb, PARTS) = "chunk"
    /\ RebuildAdvance

GFlush ==           \* lines 56-58
    /\ RebuildKind(rb, PARTS) = "flush"
    /\ RebuildAdvance

GClose ==           \* the end of `for part in PARTS` and of `with ... as out`
    /\ RebuildKind(rb, PARTS) = "close"
    /\ RebuildAdvance

GzipNext == GOpenPart \/ GChunk \/ GFlush \/ GClose

SpecGzip == GzipInit /\ [][GzipNext]_vars

(***************************************************************************)
(* The normalizers alone: one row, as the asteroid loop and as the comet   *)
(* loop turn it into a dict.  The rows carry one field each, with values   *)
(* of every JSON type, and the two examples of the documentation.          *)
(***************************************************************************)
UpperChar(c) ==
    IF \E i \in 1..26 : LowerCase[i] = c
    THEN UpperCase[CHOOSE i \in 1..26 : LowerCase[i] = c]
    ELSE c

\* Every way of writing the word w in upper and lower case.
RECURSIVE Combos(_)
Combos(w) ==
    IF w = << >> THEN { << >> }
    ELSE { <<c>> \o rest : c \in {Head(w), UpperChar(Head(w))}, rest \in Combos(Tail(w)) }

Strings(alphabet, n) == UNION { [1..k -> alphabet] : k \in 0..n }

Pads == Strings({" ", "\t"}, MaxPad)

TrueWords == { <<"y">>, <<"y", "e", "s">>, <<"t", "r", "u", "e">> }
FalseWords == { <<"n">>, <<"n", "o">>, <<"f", "a", "l", "s", "e">> }
OtherWords ==
    { << >>, <<"0">>, <<"1">>, <<"t">>, <<"y", "e">>, <<"o", "n">>, <<"y", " ", "e", "s">>,
      <<"m", "a", "y", "b", "e">> }

Spellings(words) ==
    { l \o c \o r : l \in Pads, r \in Pads, c \in UNION { Combos(w) : w \in words } }

Scalars ==
    { None, Lit("true"), Lit("false"), Num(0), Num(1), Num(433),
      Val("num", 0, <<".", "0">>, << >>), Val("num", 0, <<".", "5">>, << >>) }

Containers ==
    { Arr(<< >>), Arr(<<Num(1)>>), Arr(<<Str(<<"(">>)>>),
      Arr(<<Str(<<"a">>), Str(<< >>), Num(0), Num(1), None>>),
      Obj(<< >>), Obj(<<Str(<<"a">>), Num(1)>>), Obj(<<Str(<<"(">>), Num(1)>>) }

NeoValues ==
    Scalars \cup Containers
      \cup { Str(x) : x \in Spellings(TrueWords \cup FalseWords) \cup OtherWords }

NumberValues ==
    Scalars \cup Containers
      \cup { Str(x) : x \in Strings({"(", ")", " ", "4"}, MaxStr) }
      \cup { Str(<<"(", "4", "3", "3", ")">>) }

Halley ==
    <<"1", "P", "/", "1", "6", "8", "2", " ", "Q", "1", " ", "(", "H", "a", "l", "l",
      "e", "y", ")">>

DesignationValues ==
    Scalars \cup Containers
      \cup { Str(x) : x \in Strings({"(", ")", " ", "H"}, MaxStr) }
      \cup { Str(Halley) }

ListValues == Scalars \cup Containers \cup { Str(<< >>), Str(<<"a">>) }

ErosRow ==
    Obj(<<Str(K_Number), Str(<<"(", "4", "3", "3", ")">>),
          Str(K_Name), Str(<<"E", "r", "o", "s">>),
          Str(K_Neo), Str(<<"Y">>)>>)

HalleyRow ==
    Obj(<<Str(K_Designation_and_name), Str(Halley),
          Str(K_H), Val("num", 5, <<".", "5">>, << >>),
          Str(K_G), Val("num", 0, <<".", "1", "5">>, << >>)>>)

RawRecords ==
    { Obj(<<Str(K_Neo), v>>) : v \in NeoValues }
      \cup { Obj(<<Str(K_Number), v>>) : v \in NumberValues }
      \cup { Obj(<<Str(K_Other_desigs), v>>) : v \in ListValues }
      \cup { Obj(<<Str(K_Designation_and_name), v>>) : v \in DesignationValues }
      \cup { Obj(<<Str(K_Name), v>>) : v \in ListValues }
      \cup { ErosRow, HalleyRow }
      \cup Scalars \cup Containers

NormInit ==
    /\ rawRecord \in RawRecords
    /\ recordKind \in {"ast", "com"}
    /\ normalized = Raised
    /\ normPc = "raw"
    /\ JsonIdle
    /\ GzipIdle
    /\ BuildIdle
    /\ CodePageIdle

NormalizeAsteroid ==    \* lines 129-142
    /\ normPc = "raw"
    /\ recordKind = "ast"
    /\ normalized' = AsteroidRecord(rawRecord)
    /\ normPc' = "done"
    /\ UNCHANGED <<rawRecord, recordKind>>
    /\ UNCHANGED <<jsonVars, gzipVars, buildVars, conv>>

NormalizeComet ==       \* lines 148-163
    /\ normPc = "raw"
    /\ recordKind = "com"
    /\ normalized' = CometRecord(rawRecord)
    /\ normPc' = "done"
    /\ UNCHANGED <<rawRecord, recordKind>>
    /\ UNCHANGED <<jsonVars, gzipVars, buildVars, conv>>

NormNext == NormalizeAsteroid \/ NormalizeComet

SpecNorm == NormInit /\ [][NormNext]_vars

(***************************************************************************)
(* build_index as a whole.  The fragments are those of a two-byte archive: *)
(* cut between two characters, cut inside a character, or holding a        *)
(* character the code page lacks.  Each source is an unreadable file or an *)
(* array of rows; a row is well-typed or has a field of the wrong type.    *)
(***************************************************************************)
BuildOrig == <<65, 128>>

BuildParts ==
    { << <<65>>, <<226, 130, 172>> >>,       \* cut between the characters
      << <<65, 226>>, <<130, 172>> >>,       \* cut inside the second character
      << <<65>>, <<196, 128>> >> }           \* U+0100, not in the code page

AsteroidRowTexts ==
    { <<"{", "\"">> \o K_Number \o <<"\"", ":", "\"", "(", "1", ")", "\"", "}">>,
      <<"{", "\"">> \o K_Number \o <<"\"", ":", "2", "}">> }

CometRowTexts ==
    { <<"{", "\"">> \o K_Designation_and_name
         \o <<"\"", ":", "\"", "P", " ", "(", "H", ")", "\"", "}">>,
      <<"{", "\"">> \o K_Designation_and_name \o <<"\"", ":", "5", "}">> }

RowDocs(rows, n) ==
    { <<"[">> \o Join(es, <<",">>) \o <<"]">> : es \in UNION { [1..k -> rows] : k \in 0..n } }

SourceFiles(rows, n) ==
    { SourceFile(FALSE, << >>) } \cup { SourceFile(TRUE, d) : d \in RowDocs(rows, n) }

BuildInit ==
    /\ orig = BuildOrig
    /\ PARTS \in BuildParts
    /\ corrupted = Utf8Decode(<< >>, PARTS[1] \o PARTS[2], TRUE).chars
    /\ partSize = PART_READ_SIZE
    /\ rb = RebuildStart
    /\ ASTEROID_LIMIT \in 1..MaxLimit
    /\ archive \in SourceFiles(AsteroidRowTexts, MaxRows)
    /\ COMET_SOURCE \in SourceFiles(CometRowTexts, MaxComets)
    /\ readSize \in {MaxChunk, READ_SIZE}
    /\ doc = << >>
    /\ text = << >>
    /\ gen = GenStart(<< >>)
    /\ yielded = << >>
    /\ bi = BuildStart
    /\ disk = DiskStart
    /\ NormIdle
    /\ CodePageIdle

BuildFixed ==
    UNCHANGED <<doc, text, readSize, yielded, orig, corrupted, PARTS, partSize,
                normVars, ASTEROID_LIMIT, archive, COMET_SOURCE, conv>>

BRecover ==             \* line 125
    /\ bi.pc = "recover"
    /\ rb' = rebuild_gzip(PARTS, partSize)
    /\ disk' = [disk EXCEPT !.recovered = "present"]
    /\ bi' = AfterRecover(bi, rb')
    /\ UNCHANGED gen
    /\ BuildFixed

BOpenAsteroids ==       \* line 128, lines 63-66
    /\ bi.pc = "open_asteroids"
    /\ gen' = GenStart(archive.text)
    /\ bi' = AfterOpen(bi, archive, "asteroids")
    /\ UNCHANGED <<rb, disk>>
    /\ BuildFixed

BAsteroid ==            \* lines 128-144
    /\ bi.pc = "asteroids"
    /\ gen' = GenNext(gen, readSize)
    /\ bi' = AfterAsteroid(bi, gen', ASTEROID_LIMIT)
    /\ UNCHANGED <<rb, disk>>
    /\ BuildFixed

BOpenComets ==          \* line 147, lines 63-66
    /\ bi.pc = "open_comets"
    /\ gen' = GenStart(COMET_SOURCE.text)
    /\ bi' = AfterOpen(bi, COMET_SOURCE, "comets")
    /\ UNCHANGED <<rb, disk>>
    /\ BuildFixed

BComet ==               \* lines 147-163
    /\ bi.pc = "comets"
    /\ gen' = GenNext(gen, readSize)
    /\ bi' = AfterComet(bi, gen')
    /\ UNCHANGED <<rb, disk>>
    /\ BuildFixed

BOpenIndex ==           \* lines 165-174: the payload, INDEX_TARGET.open('w')
    /\ bi.pc = "open_index"
    /\ disk' = [disk EXCEPT !.index = "open", !.payload = NoPayload]
    /\ bi' = [bi EXCEPT !.pc = "dump"]
    /\ UNCHANGED <<rb, gen>>
    /\ BuildFixed

BDump ==                \* line 175 and the end of the with block
    /\ bi.pc = "dump"
    /\ disk' = [disk EXCEPT !.index = "written",
                            !.payload = Payload(bi.asteroids, bi.comets)]
    /\ bi' = [bi EXCEPT !.pc = "unlink"]
    /\ UNCHANGED <<rb, gen>>
    /\ BuildFixed

BDumpFails ==           \* line 175: fh.write raises OSError
    /\ bi.pc = "dump"
    /\ bi' = Fail(bi, "write")
    /\ UNCHANGED <<rb, gen, disk>>
    /\ BuildFixed

BUnlink ==              \* line 177
    /\ bi.pc = "unlink"
    /\ disk' = [disk EXCEPT !.recovered = "absent"]
    /\ bi' = [bi EXCEPT !.pc = "done"]
    /\ UNCHANGED <<rb, gen>>
    /\ BuildFixed

BuildNext ==
    \/ BRecover \/ BOpenAsteroids \/ BAsteroid \/ BOpenComets \/ BComet
    \/ BOpenIndex \/ BDump \/ BDumpFails \/ BUnlink

SpecBuild == BuildInit /\ [][BuildNext]_vars

(***************************************************************************)
(* _convert_cp1252 alone, on every one-character text the code page can    *)
(* give and on every character up to 0xFF.                                 *)
(***************************************************************************)
CodePageInit ==
    /\ conv \in { ConvertCall(b, f) : b \in 0..255, f \in BOOLEAN }
    /\ JsonIdle
    /\ GzipIdle
    /\ NormIdle
    /\ BuildIdle

CConvert ==         \* lines 36-45
    /\ conv.pc = "call"
    /\ conv' = [conv EXCEPT !.result = convert_cp1252(<<conv.char>>), !.pc = "returned"]
    /\ UNCHANGED <<jsonVars, gzipVars, normVars, buildVars>>

CodePageNext == CConvert

SpecCodePage == CodePageInit /\ [][CodePageNext]_vars

(***************************************************************************)
(* Claims about iter_json_array.                                           *)
(***************************************************************************)
WellFormed == text = doc

Reference == loads(text).obj.kids   \* json.loads of the whole document

\* C1: for a well-formed array and any read size, the decoder yields exactly
\* the elements of a whole-document parse, in order.
C1_StreamEqualsReference ==
    (GenDone(gen) /\ WellFormed) => yielded = Reference

\* C6: when the input ends before the closing bracket, the decoder does not
\* end the sequence normally (it raises), and everything it yielded is an
\* element of the document.
C6_TruncationIsFatal ==
    /\ gen.pc # "exhausted"
    /\ \A i \in 1..Len(yielded) :
         i <= Len(loads(doc).obj.kids) /\ yielded[i] = loads(doc).obj.kids[i]

\* C7: for a well-formed array, small fixed-size reads yield the same
\* sequence as one single read of the whole text.
C7_ChunkingIndependent ==
    (GenDone(gen) /\ WellFormed) => yielded = iter_json_array(text, Len(text) + 1)

(***************************************************************************)
(* Claims about rebuild_gzip.                                              *)
(***************************************************************************)
Recoverable == corrupted = CorruptAll(orig)

\* C2: whatever the byte offsets at which the corrupted text's encoding is
\* cut into fragments, rebuild_gzip ends normally having written exactly
\* the original bytes.
C2_RoundTripAnySplit ==
    (RebuildEnded(rb) /\ Recoverable) => (rb.pc = "done" /\ rb.out = orig)

(***************************************************************************)
(* Claims about the normalizers.                                           *)
(***************************************************************************)
AsteroidKeys ==
    <<K_type, K_number, K_name, K_principal, K_other, K_h, K_g, K_epoch, K_orbit, K_neo>>

CometKeys == <<K_type, K_designation, K_name, K_packed, K_orbit, K_h, K_g>>

\* C4: building the normalized record of a raw record (a JSON object with
\* fields of any type) never raises and gives exactly the key set of its kind.
C4_NormalizationTotal ==
    (normPc = "done" /\ rawRecord.t = "obj") =>
        /\ normalized.ok
        /\ Keys(normalized.val) = IF recordKind = "ast" THEN AsteroidKeys ELSE CometKeys

\* The flag the documentation gives for a raw near-Earth value.
ExpectedNeo(v) ==
    CASE v.t \in {"true", "false"} -> v
      [] v.t = "num" ->
           IF v \in {Num(0), Val("num", 0, <<".", "0">>, << >>)}
           THEN Lit("false") ELSE Lit("true")
      [] v.t = "str" ->
           IF v.s \in Spellings(TrueWords) THEN Lit("true")
           ELSE IF v.s \in Spellings(FalseWords) THEN Lit("false")
           ELSE None
      [] OTHER -> None

\* C10: the near-Earth flag of an asteroid record is the raw value itself for
\* a boolean, the truthiness of a number, true or false for a string that is
\* y/yes/true or n/no/false in any letter case with whitespace around it, and
\* none for anything else.
C10_NeoFlag ==
    (normPc = "done" /\ recordKind = "ast" /\ normalized.ok) =>
        Get(normalized.val, K_neo) = ExpectedNeo(Get(rawRecord, K_Neo))

C10_Witness ==
    /\ normPc = "done"
    /\ recordKind = "ast"
    /\ rawRecord = ErosRow
    /\ normalized.ok
    /\ Get(normalized.val, K_neo) = Lit("true")
    /\ Get(normalized.val, K_number) = Str(<<"4", "3", "3">>)
    /\ Get(normalized.val, K_other) = Arr(<< >>)

(***************************************************************************)
(* Claims about build_index.                                               *)
(***************************************************************************)
AsteroidRows == loads(archive.text).obj.kids    \* the rows of the asteroid source

CometRows == loads(COMET_SOURCE.text).obj.kids  \* the rows of the comet source

CountOfType(entries, type) ==
    Cardinality({ i \in 1..Len(entries) : Get(entries[i], K_type) = Str(type) })

Written == disk.index = "written"

\* C3: with more asteroid rows than the cap, build_index takes exactly cap
\* rows from the asteroid stream, the written entries hold exactly cap
\* records of type "ast" and metadata.asteroidCount is the cap, for every
\* value of the cap; the list never grows beyond the cap.
C3_CapEnforced ==
    /\ Len(bi.asteroids) <= ASTEROID_LIMIT
    /\ bi.pulled <= ASTEROID_LIMIT
    /\ (Written /\ Len(AsteroidRows) > ASTEROID_LIMIT) =>
         /\ bi.pulled = ASTEROID_LIMIT
         /\ CountOfType(disk.payload.entries, T_ast) = ASTEROID_LIMIT
         /\ disk.payload.metadata.asteroidCount = ASTEROID_LIMIT

C3_Witness ==
    /\ Written
    /\ Len(AsteroidRows) > ASTEROID_LIMIT
    /\ ASTEROID_LIMIT > 1
    /\ bi.pulled = ASTEROID_LIMIT
    /\ disk.payload.metadata.asteroidCount = ASTEROID_LIMIT

\* C5: in every state the index file is untouched or holds the complete
\* payload of a successful run; no failure leaves it created, truncated or
\* partly written.
C5_IndexNeverPartial ==
    /\ disk.index \in {"untouched", "written"}
    /\ Written => (bi.pc \in {"unlink", "done"}
                   /\ disk.payload = Payload(bi.asteroids, bi.comets))

\* C8: when build_index has ended, by returning or by an exception of any
\* stage, the recovered archive file no longer exists.
C8_RecoveredRemoved ==
    bi.pc \in {"done", "failed"} => disk.recovered = "absent"

ExpectedAsteroids ==
    [i \in 1..Min(Len(AsteroidRows), ASTEROID_LIMIT) |-> AsteroidRecord(AsteroidRows[i]).val]

ExpectedComets == [i \in 1..Len(CometRows) |-> CometRecord(CometRows[i]).val]

\* C9: the written entries are the normalized asteroids in source order
\* followed by the normalized comets in source order, every comet of the
\* source among them; no "com" entry precedes an "ast" entry; the two
\* counts of the metadata are the numbers of entries of each type.
C9_PayloadConsistent ==
    Written =>
      /\ disk.payload.entries = ExpectedAsteroids \o ExpectedComets
      /\ \A i, j \in 1..Len(disk.payload.entries) :
           (Get(disk.payload.entries[i], K_type) = Str(T_com)
              /\ Get(disk.payload.entries[j], K_type) = Str(T_ast)) => j < i
      /\ disk.payload.metadata.asteroidCount = CountOfType(disk.payload.entries, T_ast)
      /\ disk.payload.metadata.cometCount = CountOfType(disk.payload.entries, T_com)
      /\ disk.payload.metadata.cometCount = Len(CometRows)

C9_Witness ==
    /\ Written
    /\ disk.payload.metadata.asteroidCount = 2
    /\ disk.payload.metadata.cometCount = 2
    /\ Len(disk.payload.entries) = 4

(***************************************************************************)
(* Claims about the number and the comet name.                             *)
(***************************************************************************)
NumberField == Get(rawRecord, K_Number)

\* One pair of enclosing parentheses removed, the result trimmed.
ExpectedNumber(v) ==
    IF v.t = "str" THEN StrOrNone(Strip(Unparen(Strip(v.s)))) ELSE None

\* C11: for a string Number field the normalized number is the value without
\* one pair of enclosing parentheses and without surrounding whitespace,
\* None when nothing is left (also when the parentheses hold only
\* whitespace); an absent field gives None.
C11_NumberTrimmed ==
    (normPc = "done" /\ recordKind = "ast" /\ rawRecord.t = "obj"
       /\ (NumberField.t = "str" \/ ~HasKey(rawRecord, K_Number))) =>
      /\ normalized.ok
      /\ Get(normalized.val, K_number) = ExpectedNumber(NumberField)

DesignationField == Get(rawRecord, K_Designation_and_name)

FinalParen(s) == CHOOSE i \in 1..Len(s) : s[i] = "(" /\ \A j \in (i + 1)..Len(s) : s[j] # "("

HasTrailingGroup(s) == s # << >> /\ s[Len(s)] = ")" /\ \E i \in 1..Len(s) : s[i] = "("

\* The text between the final "(" and the trailing ")", trimmed.
GroupText(s) == Strip(SubSeq(s, FinalParen(s) + 1, Len(s) - 1))

ExpectedName(s) ==
    IF HasTrailingGroup(s) /\ GroupText(s) # << >> THEN Str(GroupText(s)) ELSE None

\* C12: for a string "designation and name" the name is the trimmed text
\* between the final "(" and the trailing ")", None when that text is empty
\* or the string does not end in a parenthesized group; the designation is
\* the whole input string.
C12_CometNameSplit ==
    (normPc = "done" /\ recordKind = "com" /\ rawRecord.t = "obj"
       /\ DesignationField.t = "str") =>
      /\ normalized.ok
      /\ Get(normalized.val, K_name) = ExpectedName(DesignationField.s)
      /\ Get(normalized.val, K_designation) = DesignationField

C12_Witness ==
    /\ normPc = "done"
    /\ recordKind = "com"
    /\ rawRecord = HalleyRow
    /\ normalized.ok
    /\ Get(normalized.val, K_name) = Str(<<"H", "a", "l", "l", "e", "y">>)
    /\ Get(normalized.val, K_designation) = Str(Halley)
    /\ Get(normalized.val, K_packed) = None
    /\ Get(normalized.val, K_h) = Val("num", 5, <<".", "5">>, << >>)

(***************************************************************************)
(* Claims about the buffer of iter_json_array.                             *)
(***************************************************************************)
IsPrefix(a, b) == Len(a) <= Len(b) /\ \A i \in 1..Len(a) : a[i] = b[i]

\* C13: for a well-formed array the values yielded so far are at every
\* step a prefix of the reference element sequence: an element cut by the
\* end of the buffer yields nothing until its whole text has been read.
C13_YieldedIsPrefix == WellFormed => IsPrefix(yielded, Reference)

TextRead == Slice(text, 0, Len(text) - Len(gen.rest))

IsSuffix(a, b) == Len(a) <= Len(b) /\ From(b, Len(b) - Len(a)) = a

\* The length of the longest top-level element of document d, scanned from
\* position i with the reference decoder.
RECURSIVE LargestFrom(_, _, _)
LargestAfter(d, i, r, best) ==
    IF r.ok THEN LargestFrom(d, r.end, IF r.end - i > best THEN r.end - i ELSE best)
    ELSE best

LargestFrom(d, i, best) ==
    IF i >= Len(d) \/ At(d, i) = "]" THEN best
    ELSE IF IsSpace(At(d, i)) \/ At(d, i) = "," THEN LargestFrom(d, i + 1, best)
    ELSE LargestAfter(d, i, raw_decode(d, i), best)

LargestElement(d) == LargestFrom(d, 1, 0)

\* After a scan pass: nothing is left, or the buffer begins with a value
\* that cannot be parsed yet.
TailOnly(buffer) ==
    \/ buffer = << >>
    \/ /\ ~IsSpace(Head(buffer))
       /\ Head(buffer) \notin {"[", ",", "]"}
       /\ ~raw_decode(buffer, 0).ok

Scanned(g) ==
    Slice(TextRead, 0, Len(TextRead) - Len(g.buffer) + (IF g.pc = "scan" THEN g.pos ELSE 0))

HasClose(s) == \E i \in 1..Len(s) : s[i] = "]"

\* A step of the inner loop, from frame g to frame h, leaves the loop or
\* moves the cursor forward.
ScanAdvances(g, h) == g.pc = "scan" => (h.pc # "scan" \/ h.pos > g.pos)

\* The test of the outer loop after the read that found the end of input.
EndsAfterEof == (gen.pc = "read" /\ gen.eof) => gen'.pc = "exhausted"

\* No value is yielded once the scanner has passed a "]".
NoYieldAfterClose == yielded' # yielded => ~HasClose(Scanned(gen))

\* C15: the generator ends on every input; a scan step that stays in the
\* scan advances the cursor; the outer loop ends after the pass that follows
\* the end of input; once a "]" has been scanned nothing more is yielded,
\* whatever text follows.
C15_Terminates ==
    /\ <>GenDone(gen)
    /\ [](ScanAdvances(gen, GenStep(gen, readSize)))
    /\ [][EndsAfterEof]_vars
    /\ [][NoYieldAfterClose]_vars

C15_Witness ==
    /\ gen.pc = "returned"
    /\ yielded # << >>
    /\ gen.rest # << >>
    /\ text = doc \o <<"[", "1", "]">>
    /\ yielded = loads(doc).obj.kids

(***************************************************************************)
(* Claims about the order of the stages of build_index.                    *)
(***************************************************************************)
Stages ==
    <<"recover", "open_asteroids", "asteroids", "open_comets", "comets",
      "open_index", "dump", "unlink", "done">>

StageOf(pc) == CHOOSE i \in 1..Len(Stages) : Stages[i] = pc

\* A step stays in its stage, enters the next one, or fails.
InOrder ==
    \/ bi'.pc = bi.pc
    \/ bi'.pc = "failed"
    \/ bi.pc # "failed" /\ bi'.pc # "failed" /\ StageOf(bi'.pc) = StageOf(bi.pc) + 1

Recovered == rb.pc = "done" /\ rb.part = Len(PARTS) /\ disk.recovered = "present"

Decoding == bi.pc \in {"open_asteroids", "asteroids", "open_comets", "comets"}

Streamed == bi.pc \in {"open_index", "dump", "unlink", "done"}

StagesDone ==
    /\ Decoding => Recovered
    /\ bi.pc = "recover" => (bi.asteroids = << >> /\ bi.pulled = 0)
    /\ (bi.pc \in {"recover", "open_asteroids", "asteroids"}) => bi.comets = << >>
    /\ Streamed => (rb.pc = "done" /\ GenDone(gen) /\ COMET_SOURCE.valid /\ archive.valid)
    /\ disk.index # "untouched" =>
         (bi.pc \in {"dump", "unlink", "done"} \/ (bi.pc = "failed" /\ bi.error = "write"))
    /\ (disk.recovered = "absent" /\ bi.pc # "recover") =>
         (bi.pc = "done" /\ disk.index = "written")

\* C16: the stages run in the order recover, asteroids, comets, write,
\* delete: the recovered archive is written and closed before the asteroid
\* decoder reads it, the index is opened only after both sources have been
\* streamed, and the recovered archive is deleted only after the index has
\* been written.
C16_StagesInOrder == [][InOrder]_vars /\ []StagesDone

C16_Witness ==
    /\ bi.pc = "done"
    /\ disk.index = "written"
    /\ disk.recovered = "absent"
    /\ Len(bi.asteroids) = ASTEROID_LIMIT
    /\ bi.comets # << >>
    /\ Len(AsteroidRows) > ASTEROID_LIMIT

(***************************************************************************)
(* Claims about a character the code page lacks and about the chunks of a  *)
(* fragment.                                                               *)
(***************************************************************************)
\* C17: a character above 255 without a reverse mapping is fatal: the build
\* fails there, no later fragment is opened, the index is not written, and
\* no recovered archive is left on disk.
C17_UnmappedIsFatal ==
    rb.pc = "KeyError" =>
      /\ bi.pc = "failed"
      /\ bi.error = "recover"
      /\ rb.part = 2
      /\ disk.index = "untouched"
      /\ disk.recovered = "absent"

\* The fragments up to the current one, each read as a single chunk.
OneChunk(n) == rebuild_gzip(SubSeq(PARTS, 1, n), PART_READ_SIZE)

AtFragmentEnd == rb.pc \in {"open", "done"} /\ rb.part >= 1

\* The decoder is flushed once per fragment, after its last chunk.
FlushedOnce ==
    /\ rb.pc = "read" => rb.flushes = 0
    /\ AtFragmentEnd => (rb.flushes = 1 /\ rb.stream = << >> /\ rb.decoder = << >>)

C19_ReverseIsLeftInverse ==
    /\ UNDEFINED \notin DOMAIN CP1252_REVERSE
    /\ DOMAIN CP1252_REVERSE = { decoding_table[b] : b \in 0..255 } \ {UNDEFINED}
    /\ conv.pc = "returned" =>
         /\ (conv.forward /\ decoding_table[conv.byte] # UNDEFINED) =>
               conv.result = Converted(TRUE, <<conv.byte>>)
         /\ conv.char <= 255 => conv.result = Converted(TRUE, <<conv.char>>)
         /\ conv.char = UNDEFINED => ~conv.result.ok

C19_Witness ==
    /\ conv.pc = "returned"
    /\ conv.forward
    /\ conv.byte = 128
    /\ conv.char = 8364
    /\ conv.result = Converted(TRUE, <<128>>)

====
